---- MODULE Spec2Model ----
(***************************************************************************)
(* Model of the golf-outing worker (src/cloudflare_worker/src/index.js):   *)
(* the three tables of the D1 database, the handler                        *)
(* GET /api/outings/:outingId/groups, step by step, and the endpoints that *)
(* write the tables, one database statement at a time.                     *)
(*                                                                         *)
(* Arrays are JavaScript objects: the handler's locals `players` and       *)
(* `currentPlayers` hold references into `heap`, so that aliasing (a       *)
(* missing clone) would be visible.  Player names are sequences of UTF-16  *)
(* code units; group names are strings.                                    *)
(***************************************************************************)
EXTENDS Integers, Sequences, FiniteSets, TLC

VARIABLES
    db_players,         \* table players: rows [id, name, name_lower, skill]
    db_outings,         \* table outings: rows [id, name, number_of_groups]
    db_outing_players,  \* table outing_players: rows [outing_id, player_id]
    outingId,           \* request.params.outingId
    query,              \* request.query.shuffle
    shuffle,            \* query.shuffle === 'true'
    pc,                 \* position of the handler
    outing,             \* row fetched from outings (id 0: no row)
    numberOfGroups,     \* outing.number_of_groups
    heap,               \* array objects, by reference
    players,            \* reference of the member lookup's result (0: unset)
    currentPlayers,     \* reference of the working copy (0: unset)
    i,                  \* loop index of the shuffle
    draws,              \* the values j drawn from Math.random so far
    groups,             \* the groups under construction
    groupIndex,         \* snake draft: current group (0-based)
    direction,          \* snake draft: +1 or -1
    k,                  \* forEach: number of players already distributed
    response,           \* the handler's response (status 0: none yet)
    lastResponse,       \* response of the preceding invocation (status 0: none)
    reqs                \* the requests to the other endpoints, by request number

vars == <<db_players, db_outings, db_outing_players, outingId, query, shuffle, pc,
          outing, numberOfGroups, heap, players, currentPlayers, i, draws,
          groups, groupIndex, direction, k, response, lastResponse, reqs>>

dbVars == <<db_players, db_outings, db_outing_players>>

\* the state of the group handler
handlerVars == <<outingId, query, shuffle, pc, outing, numberOfGroups, heap, players,
                 currentPlayers, i, draws, groups, groupIndex, direction, k, response,
                 lastResponse>>

-----------------------------------------------------------------------------
(* Bounds of the model.                                                    *)

\* players in the table in the general specification
MaxPlayers == 3
\* largest configured group count in the general specification
MaxGroups == 3
\* largest configured group count in the naming specification
MaxNameGroups == 54
\* players in the table in the group size specification
MaxSizePlayers == 5
\* requests to the store endpoints that can be in flight together
MaxRequests == 2
\* ids crypto.randomUUID() hands out in the store specifications
MaxIds == 3
\* member lookups of at most this many rows return them in every order;
\* larger ones in the rotations of the id order and of its reverse
MaxPermuted == 4

\* skill validation, index.js line 37
MinSkill == 1
MaxSkill == 10

-----------------------------------------------------------------------------
(* Strings: code units, toLowerCase, localeCompare.                        *)

\* code units used by the names of the model:
\* 65 'A', 97.. 'a'.., 233 e-acute (precomposed), 769 combining acute accent
IsCombining(u) == u = 769
IsUpper(u) == u >= 65 /\ u <= 90

LowerUnit(u) == IF IsUpper(u) THEN u + 32 ELSE u

toLowerCase(s) == [n \in 1..Len(s) |-> LowerUnit(s[n])]

\* canonical decomposition of one code unit
Decompose(u) == IF u = 233 THEN <<101, 769>> ELSE <<u>>

RECURSIVE NFD(_)
NFD(s) == IF s = <<>> THEN <<>> ELSE Decompose(Head(s)) \o NFD(Tail(s))

RECURSIVE CompareSeq(_, _)
CompareSeq(s, t) ==
    IF s = <<>> /\ t = <<>> THEN 0
    ELSE IF s = <<>> THEN -1
    ELSE IF t = <<>> THEN 1
    ELSE IF Head(s) < Head(t) THEN -1
    ELSE IF Head(s) > Head(t) THEN 1
    ELSE CompareSeq(Tail(s), Tail(t))

\* collation weights of a string, level by level: letters, accents, case
PrimaryKey(s) ==
    LET d == NFD(s) IN [n \in 1..Len(SelectSeq(d, LAMBDA u: ~IsCombining(u))) |->
                           LowerUnit(SelectSeq(d, LAMBDA u: ~IsCombining(u))[n])]
SecondaryKey(s) ==
    LET d == NFD(s) IN [n \in 1..Len(d) |-> IF IsCombining(d[n]) THEN 1 ELSE 0]
TertiaryKey(s) ==
    LET d == NFD(s) IN [n \in 1..Len(d) |-> IF IsUpper(d[n]) THEN 1 ELSE 0]

\* String.prototype.localeCompare: canonically equivalent strings compare 0
localeCompare(a, b) ==
    LET p == CompareSeq(PrimaryKey(a), PrimaryKey(b))
        s == CompareSeq(SecondaryKey(a), SecondaryKey(b))
        t == CompareSeq(TertiaryKey(a), TertiaryKey(b))
    IN  IF p # 0 THEN p ELSE IF s # 0 THEN s ELSE t

-----------------------------------------------------------------------------
(* The group name catalog.                                                 *)

GOLF_GROUP_NAMES == <<
    "The Fairway Fanatics", "The Driving Divas/Dudes", "The Bogey Brigade", "The Ace Alliance",
    "The Bunker Busters", "The Caddy Crew", "The Eagle Enforcers", "The Fore Horsemen",
    "The Green Guardians", "The Hazard Heroes", "The Iron Masters", "The Julep Jubilees",
    "The Mulligan Monarchs", "The Niblick Ninjas", "The On-Course Originals", "The Pin Seekers",
    "The Quagmire Conquerors", "The Rough Riders", "The Sand Trappers", "The Tee Time Titans",
    "The Under Par Unicorns", "The Victory Vardon", "The Wedge Wizards", "The X-Factor",
    "The Yardage Yetis", "The Zany Zephyrs" >>

\* variant: the catalog entry alone, without the cycle suffix
GroupNameNoSuffix(n) == GOLF_GROUP_NAMES[(n % Len(GOLF_GROUP_NAMES)) + 1]

\* variant: the suffix is the number of completed cycles
GroupNameCycleIndex(n) ==
    GOLF_GROUP_NAMES[(n % Len(GOLF_GROUP_NAMES)) + 1]
        \o (IF n \div Len(GOLF_GROUP_NAMES) > 0
            THEN " (" \o ToString(n \div Len(GOLF_GROUP_NAMES)) \o ")"
            ELSE "")

\* name of group n (0-based): catalog entry, with " (cycle)" from the second cycle on
GroupName(n) ==
    GOLF_GROUP_NAMES[(n % Len(GOLF_GROUP_NAMES)) + 1]
        \o (IF n \div Len(GOLF_GROUP_NAMES) > 0
            THEN " (" \o ToString((n \div Len(GOLF_GROUP_NAMES)) + 1) \o ")"
            ELSE "")

\* Array.from({ length: numberOfGroups }, (_, i) => ({ name, players: [], totalSkill: 0 }))
NewGroups(count) ==
    [n \in 1..count |-> [name |-> GroupName(n - 1), players |-> <<>>, totalSkill |-> 0]]

-----------------------------------------------------------------------------
(* Ordering: the balanced sort and the shuffle step.                       *)

\* variant: skill ascending
ComparePlayersAscending(a, b) ==
    IF b.skill # a.skill THEN a.skill - b.skill
    ELSE localeCompare(a.name, b.name)

\* variant: the comparator looks at the names alone
ComparePlayersNameOnly(a, b) == localeCompare(a.name, b.name)

\* the comparator handed to sort: skill descending, then name ascending
ComparePlayers(a, b) ==
    IF b.skill # a.skill THEN b.skill - a.skill
    ELSE localeCompare(a.name, b.name)

\* x put into the sorted sequence s behind every element that does not
\* compare greater than it (Array.prototype.sort is stable)
RECURSIVE InsertSorted(_, _)
InsertSorted(x, s) ==
    IF s = <<>> THEN <<x>>
    ELSE IF ComparePlayers(Head(s), x) > 0 THEN <<x>> \o s
    ELSE <<Head(s)>> \o InsertSorted(x, Tail(s))

RECURSIVE SortPlayersSeq(_)
SortPlayersSeq(s) ==
    IF s = <<>> THEN <<>>
    ELSE InsertSorted(s[Len(s)], SortPlayersSeq(SubSeq(s, 1, Len(s) - 1)))

\* variant: Math.floor(Math.random() * i), which never draws i itself
RandomIndexBelow(n) == 0..(n - 1)

\* the values Math.floor(Math.random() * (i + 1)) takes (0-based positions)
RandomIndex(n) == 0..n

\* variant: a[i] = a[j]; a[j] = a[i], which loses the element at i
SwapLossy(a, m, n) == [a EXCEPT ![m + 1] = a[n + 1]]

\* [a[i], a[j]] = [a[j], a[i]], positions 0-based
Swap(a, m, n) == [a EXCEPT ![m + 1] = a[n + 1], ![n + 1] = a[m + 1]]

-----------------------------------------------------------------------------
(* Distribution and totals.                                                *)

\* variant: on leaving the range, reverse and move inward at once
AdvanceBounce(idx, dir, count) ==
    IF idx + dir >= count \/ idx + dir < 0
    THEN [groupIndex |-> idx - dir, direction |-> -1 * dir]
    ELSE [groupIndex |-> idx + dir, direction |-> dir]

\* variant: the range check looks at the upper end only
AdvanceUpperOnly(idx, dir, count) ==
    IF idx + dir >= count
    THEN [groupIndex |-> idx + dir + (-1 * dir), direction |-> -1 * dir]
    ELSE [groupIndex |-> idx + dir, direction |-> dir]

\* variant: on leaving the range, stay at the boundary group and keep the direction
AdvanceClamp(idx, dir, count) ==
    IF idx + dir >= count \/ idx + dir < 0
    THEN [groupIndex |-> idx, direction |-> dir]
    ELSE [groupIndex |-> idx + dir, direction |-> dir]

\* groupIndex += direction; on leaving the range, reverse and step back in
Advance(idx, dir, count) ==
    IF idx + dir >= count \/ idx + dir < 0
    THEN [groupIndex |-> idx + dir + (-1 * dir), direction |-> -1 * dir]
    ELSE [groupIndex |-> idx + dir, direction |-> dir]

\* groups[groupIndex].players.push({id, name, skill}); totalSkill += skill
PushPlayer(gs, idx, p) ==
    [gs EXCEPT ![idx + 1] =
        [@ EXCEPT !.players = Append(@, [id |-> p.id, name |-> p.name, skill |-> p.skill]),
                  !.totalSkill = @ + p.skill]]

\* group.players.reduce((sum, p) => sum + p.skill, 0)
RECURSIVE SumSkill(_)
SumSkill(ps) == IF ps = <<>> THEN 0 ELSE ps[1].skill + SumSkill(Tail(ps))

\* variant: group.totalSkill += ..., on top of the running total
RecalculateOnTop(gs) ==
    [n \in 1..Len(gs) |-> [gs[n] EXCEPT !.totalSkill = @ + SumSkill(gs[n].players)]]

\* groups.forEach(group => { group.totalSkill = ... })
Recalculate(gs) == [n \in 1..Len(gs) |-> [gs[n] EXCEPT !.totalSkill = SumSkill(gs[n].players)]]

-----------------------------------------------------------------------------
(* The database reads.                                                     *)

NoRow == [id |-> 0, name |-> "", number_of_groups |-> 0]

\* SELECT id, name, number_of_groups FROM outings WHERE id = ?1, .first()
SelectOuting(id) ==
    IF \E o \in db_outings : o.id = id
    THEN CHOOSE o \in db_outings : o.id = id
    ELSE NoRow

\* SELECT p.id, p.name, p.skill FROM players p JOIN outing_players op
\*   ON p.id = op.player_id WHERE op.outing_id = ?1      (the rows, as a set)
MemberRows(id) ==
    { [id |-> p.id, name |-> p.name, skill |-> p.skill] :
        p \in { q \in db_players :
                  \E op \in db_outing_players :
                      op.outing_id = id /\ op.player_id = q.id } }

Orderings(S) ==
    { f \in [1..Cardinality(S) -> S] : \A x \in S : \E n \in 1..Cardinality(S) : f[n] = x }

RECURSIVE ById(_)
ById(S) ==
    IF S = {} THEN <<>>
    ELSE LET m == CHOOSE x \in S : \A y \in S : x.id <= y.id
         IN  <<m>> \o ById(S \ {m})

Reverse(s) == [n \in 1..Len(s) |-> s[Len(s) + 1 - n]]

Rotations(s) ==
    { [n \in 1..Len(s) |-> s[((n - 1 + r) % Len(s)) + 1]] : r \in 0..(Len(s) - 1) }

\* the orders in which the lookup, which has no ORDER BY, may return the rows
LookupOrders(S) ==
    IF Cardinality(S) <= MaxPermuted THEN Orderings(S)
    ELSE Rotations(ById(S)) \cup Rotations(Reverse(ById(S)))

\* variant: no empty check
IsEmptyOutingNever(ps) == FALSE

\* if (!players || players.length === 0)
IsEmptyOuting(ps) == Len(ps) = 0

\* variant: let currentPlayers = players, the same array object
AliasArray(h, r) == [heap |-> h, ref |-> r]

\* [...players]: a new array object (reference 2) with the same elements
CloneArray(h, r) == [heap |-> [h EXCEPT ![2] = h[r]], ref |-> 2]

-----------------------------------------------------------------------------
(* Responses.                                                              *)

NoResponse == [status |-> 0]

NotFoundResponse == [status |-> 404, error |-> "Outing not found."]

EmptyResponse(o) ==
    [status |-> 200, outingName |-> o.name, groups |-> <<>>,
     message |-> "No players in this outing to form groups."]

\* variant: groups without players are left out of the result
GroupsResponseNonEmpty(o, count, gs) ==
    [status |-> 200, outingName |-> o.name, numberOfGroups |-> count,
     groups |-> SelectSeq(gs, LAMBDA g : g.players # <<>>)]

GroupsResponse(o, count, gs) ==
    [status |-> 200, outingName |-> o.name, numberOfGroups |-> count, groups |-> gs]

\* the catch block: error(500, { message: 'Failed to generate groups', ... })
ErrorResponse == [status |-> 500, message |-> "Failed to generate groups"]

-----------------------------------------------------------------------------
(* Initial states.                                                         *)

\* names of the players of the model, by id: "b", e-acute precomposed,
\* e-acute decomposed, "A", then "a" followed by a letter
PlayerName(id) ==
    CASE id = 1 -> <<98>>
      [] id = 2 -> <<233>>
      [] id = 3 -> <<101, 769>>
      [] id = 4 -> <<65>>
      [] OTHER  -> <<97, 97 + id>>

\* a row of outing_players; rowid tells apart rows that are otherwise equal
MemberRow(o, p, rowid) == [outing_id |-> o, player_id |-> p, rowid |-> rowid]

\* the shuffle parameter of the query string: absent, or one of these strings
NoParam == "(absent)"

QueryValues == {NoParam, "true", "false"}

\* variant: randomized unless the parameter is 'false'
ShuffleFlagUnlessFalse(q) == q # "false"

\* const shuffle = query?.shuffle === 'true'
ShuffleFlag(q) == q = "true"

PlayerRow(id, skill) ==
    [id |-> id, name |-> PlayerName(id), name_lower |-> toLowerCase(PlayerName(id)),
     skill |-> skill]

HandlerInit ==
    /\ pc = "start"
    /\ outing = NoRow
    /\ numberOfGroups = 0
    /\ heap = [r \in 1..2 |-> <<>>]
    /\ players = 0
    /\ currentPlayers = 0
    /\ i = 0
    /\ draws = <<>>
    /\ groups = <<>>
    /\ groupIndex = 0
    /\ direction = 1
    /\ k = 0
    /\ response = NoResponse
    /\ lastResponse = NoResponse

\* no request to the group handler's neighbours is in flight
LocalsInit == HandlerInit /\ reqs = <<>>

\* a table of MaxPlayers players of lowest or highest skill, one outing of
\* 1..MaxGroups groups with any of the players as members; a request for
\* that outing or for one that does not exist, in either mode
Init ==
    /\ \E sk \in [1..MaxPlayers -> {MinSkill, MaxSkill}] :
           db_players = { PlayerRow(id, sk[id]) : id \in 1..MaxPlayers }
    /\ \E g \in 1..MaxGroups :
           db_outings = { [id |-> 1, name |-> "Spring Open", number_of_groups |-> g] }
    /\ \E m \in SUBSET (1..MaxPlayers) :
           db_outing_players = { MemberRow(1, id, id) : id \in m }
    /\ outingId \in {1, 2}
    /\ query \in QueryValues
    /\ shuffle = ShuffleFlag(query)
    /\ LocalsInit

-----------------------------------------------------------------------------
(* The handler GET /api/outings/:outingId/groups.                          *)

\* 1. fetch the outing; 404 when there is none
FetchOuting ==
    /\ pc = "start"
    /\ outing' = SelectOuting(outingId)
    /\ IF outing'.id = 0
       THEN /\ response' = NotFoundResponse
            /\ pc' = "done"
            /\ UNCHANGED numberOfGroups
       ELSE /\ numberOfGroups' = outing'.number_of_groups
            /\ pc' = "fetchPlayers"
            /\ UNCHANGED response
    /\ UNCHANGED <<dbVars, reqs, outingId, query, shuffle, heap, players, currentPlayers, i, draws,
                   groups, groupIndex, direction, k, lastResponse>>

\* variant: the lookup takes the outing's rows out of outing_players
FetchPlayersConsuming ==
    /\ pc = "fetchPlayers"
    /\ \E rows \in LookupOrders(MemberRows(outingId)) :
           heap' = [heap EXCEPT ![1] = rows]
    /\ players' = 1
    /\ pc' = "checkEmpty"
    /\ db_outing_players' = { r \in db_outing_players : r.outing_id # outingId }
    /\ UNCHANGED <<db_players, db_outings, reqs, outingId, query, shuffle, outing,
                   numberOfGroups, currentPlayers, i, draws, groups, groupIndex,
                   direction, k, response, lastResponse>>

\* 2. fetch the members, in whatever order the database returns them
FetchPlayers ==
    /\ pc = "fetchPlayers"
    /\ \E rows \in LookupOrders(MemberRows(outingId)) :
           heap' = [heap EXCEPT ![1] = rows]
    /\ players' = 1
    /\ pc' = "checkEmpty"
    /\ UNCHANGED <<dbVars, reqs, outingId, query, shuffle, outing, numberOfGroups, currentPlayers, i,
                   draws, groups, groupIndex, direction, k, response, lastResponse>>

\* the empty check, then let currentPlayers = [...players]
CheckEmpty ==
    /\ pc = "checkEmpty"
    /\ IF IsEmptyOuting(heap[players])
       THEN /\ response' = EmptyResponse(outing)
            /\ pc' = "done"
            /\ UNCHANGED <<heap, currentPlayers, i>>
       ELSE /\ heap' = CloneArray(heap, players).heap
            /\ currentPlayers' = CloneArray(heap, players).ref
            /\ i' = Len(heap[players]) - 1
            /\ pc' = IF shuffle THEN "shuffle" ELSE "sort"
            /\ UNCHANGED response
    /\ UNCHANGED <<dbVars, reqs, outingId, query, shuffle, outing, numberOfGroups, players, draws,
                   groups, groupIndex, direction, k, lastResponse>>

\* one iteration of the Fisher-Yates loop
ShuffleStep ==
    /\ pc = "shuffle"
    /\ i > 0
    /\ \E j \in RandomIndex(i) :
           /\ heap' = [heap EXCEPT ![currentPlayers] = Swap(@, i, j)]
           /\ draws' = Append(draws, j)
    /\ i' = i - 1
    /\ UNCHANGED <<dbVars, reqs, outingId, query, shuffle, pc, outing, numberOfGroups, players,
                   currentPlayers, groups, groupIndex, direction, k, response,
                   lastResponse>>

\* the balanced sort, in place on the working copy
SortPlayers ==
    /\ pc = "sort"
    /\ heap' = [heap EXCEPT ![currentPlayers] = SortPlayersSeq(@)]
    /\ pc' = "makeGroups"
    /\ UNCHANGED <<dbVars, reqs, outingId, query, shuffle, outing, numberOfGroups, players,
                   currentPlayers, i, draws, groups, groupIndex, direction, k, response,
                   lastResponse>>

\* the groups are built (after the shuffle loop has ended, or after the sort)
MakeGroups ==
    /\ \/ pc = "shuffle" /\ i <= 0
       \/ pc = "makeGroups"
    /\ groups' = NewGroups(numberOfGroups)
    /\ groupIndex' = 0
    /\ direction' = 1
    /\ k' = 0
    /\ pc' = "distribute"
    /\ UNCHANGED <<dbVars, reqs, outingId, query, shuffle, outing, numberOfGroups, heap, players,
                   currentPlayers, i, draws, response, lastResponse>>

\* one iteration of currentPlayers.forEach; groups[groupIndex] is undefined
\* outside the array, and reading its players throws into the catch block
DistributeStep ==
    /\ pc = "distribute"
    /\ k < Len(heap[currentPlayers])
    /\ IF groupIndex >= 0 /\ groupIndex < Len(groups)
       THEN /\ groups' = PushPlayer(groups, groupIndex, heap[currentPlayers][k + 1])
            /\ groupIndex' = Advance(groupIndex, direction, numberOfGroups).groupIndex
            /\ direction' = Advance(groupIndex, direction, numberOfGroups).direction
            /\ k' = k + 1
            /\ UNCHANGED <<pc, response>>
       ELSE /\ response' = ErrorResponse
            /\ pc' = "done"
            /\ UNCHANGED <<groups, groupIndex, direction, k>>
    /\ UNCHANGED <<dbVars, reqs, outingId, query, shuffle, outing, numberOfGroups, heap,
                   players, currentPlayers, i, draws, lastResponse>>

\* the totals are recalculated and the result returned
Respond ==
    /\ pc = "distribute"
    /\ k >= Len(heap[currentPlayers])
    /\ groups' = Recalculate(groups)
    /\ response' = GroupsResponse(outing, numberOfGroups, groups')
    /\ pc' = "done"
    /\ UNCHANGED <<dbVars, reqs, outingId, query, shuffle, outing, numberOfGroups, heap, players,
                   currentPlayers, i, draws, groupIndex, direction, k, lastResponse>>

\* the same request is made once more; the handler's locals are fresh
Repeat ==
    /\ pc = "done"
    /\ lastResponse = NoResponse
    /\ lastResponse' = response
    /\ pc' = "start"
    /\ outing' = NoRow
    /\ numberOfGroups' = 0
    /\ heap' = [r \in 1..2 |-> <<>>]
    /\ players' = 0
    /\ currentPlayers' = 0
    /\ i' = 0
    /\ draws' = <<>>
    /\ groups' = <<>>
    /\ groupIndex' = 0
    /\ direction' = 1
    /\ k' = 0
    /\ response' = NoResponse
    /\ UNCHANGED <<dbVars, reqs, outingId, query, shuffle>>

Next ==
    \/ FetchOuting
    \/ FetchPlayers
    \/ CheckEmpty
    \/ ShuffleStep
    \/ SortPlayers
    \/ MakeGroups
    \/ DistributeStep
    \/ Respond

Spec == Init /\ [][Next]_vars

\* the balanced path alone
NextBalanced ==
    \/ FetchOuting
    \/ FetchPlayers
    \/ CheckEmpty
    \/ SortPlayers
    \/ MakeGroups
    \/ DistributeStep
    \/ Respond

\* balanced mode, the request made twice against the same database
InitRepeat == Init /\ shuffle = FALSE

NextRepeat == NextBalanced \/ Repeat

SpecRepeat == InitRepeat /\ [][NextRepeat]_vars

\* two members, one outing of 1..MaxNameGroups groups
InitNames ==
    /\ db_players = { PlayerRow(id, MaxSkill) : id \in 1..2 }
    /\ \E g \in 1..MaxNameGroups :
           db_outings = { [id |-> 1, name |-> "Spring Open", number_of_groups |-> g] }
    /\ db_outing_players = { MemberRow(1, id, id) : id \in 1..2 }
    /\ outingId = 1
    /\ query \in QueryValues
    /\ shuffle = ShuffleFlag(query)
    /\ LocalsInit

SpecNames == InitNames /\ [][Next]_vars

\* ten members of skills 1..10 (player id has skill ((3 * id) % 10) + 1),
\* an outing of three groups, balanced mode
InitExample ==
    /\ db_players = { PlayerRow(id, ((3 * id) % 10) + 1) : id \in 1..10 }
    /\ db_outings = { [id |-> 1, name |-> "Spring Open", number_of_groups |-> 3] }
    /\ db_outing_players = { MemberRow(1, id, id) : id \in 1..10 }
    /\ outingId = 1
    /\ query = NoParam
    /\ shuffle = ShuffleFlag(query)
    /\ LocalsInit

SpecExample == InitExample /\ [][NextBalanced]_vars

\* one outing of 1..MaxGroups groups whose members are the first m of
\* MaxSizePlayers players, of skills alternating between the extremes
InitSizes ==
    /\ db_players = { PlayerRow(id, IF id % 2 = 0 THEN MaxSkill ELSE MinSkill) :
                         id \in 1..MaxSizePlayers }
    /\ \E g \in 1..MaxGroups :
           db_outings = { [id |-> 1, name |-> "Spring Open", number_of_groups |-> g] }
    /\ \E m \in 1..MaxSizePlayers :
           db_outing_players = { MemberRow(1, id, id) : id \in 1..m }
    /\ outingId = 1
    /\ query \in QueryValues
    /\ shuffle = ShuffleFlag(query)
    /\ LocalsInit

SpecSizes == InitSizes /\ [][Next]_vars

\* skills of the players in the skill balance specification: the extremes
\* and one between
BalanceSkills == {MinSkill, 6, MaxSkill}

\* one outing of 1..MaxGroups groups whose members are the first m of
\* MaxSizePlayers players; the skills are any of BalanceSkills, not falling
\* with the id (the sort and the lookup order decide the order, not the id)
InitBalance ==
    /\ \E sk \in [1..MaxSizePlayers -> BalanceSkills] :
           /\ \A a, b \in 1..MaxSizePlayers : a < b => sk[a] <= sk[b]
           /\ db_players = { PlayerRow(id, sk[id]) : id \in 1..MaxSizePlayers }
    /\ \E g \in 1..MaxGroups :
           db_outings = { [id |-> 1, name |-> "Spring Open", number_of_groups |-> g] }
    /\ \E m \in 1..MaxSizePlayers :
           db_outing_players = { MemberRow(1, id, id) : id \in 1..m }
    /\ outingId = 1
    /\ query \in {NoParam, "false"}
    /\ shuffle = ShuffleFlag(query)
    /\ LocalsInit

SpecBalance == InitBalance /\ [][NextBalanced]_vars

-----------------------------------------------------------------------------
(* Values of request bodies (request.json_data) and of table columns.      *)

JUndefined == [type |-> "undefined"]

JString(chars) == [type |-> "string", chars |-> chars]

\* the number n / d, d > 0, in lowest terms
JNumber(n, d) == [type |-> "number", num |-> n, den |-> d]

\* !v for the values above
Falsy(v) ==
    \/ v.type = "undefined"
    \/ v.type = "string" /\ v.chars = <<>>
    \/ v.type = "number" /\ v.num = 0

\* v < n and v > n for a number v and an integer n
LessThan(v, n) == v.num < n * v.den

GreaterThan(v, n) == v.num > n * v.den

\* Number.isInteger(v) for a number v
IsInteger(v) == v.num % v.den = 0

IsWhiteSpace(c) == c \in {9, 10, 11, 12, 13, 32, 160}

\* String.prototype.trim
RECURSIVE trim(_)
trim(chars) ==
    IF chars = <<>> THEN <<>>
    ELSE IF IsWhiteSpace(Head(chars)) THEN trim(Tail(chars))
    ELSE IF IsWhiteSpace(chars[Len(chars)]) THEN trim(SubSeq(chars, 1, Len(chars) - 1))
    ELSE chars

-----------------------------------------------------------------------------
(* Requests to the store endpoints.  A request holds a slot of reqs from   *)
(* its arrival to its response.  A step runs the handler's code up to and  *)
(* including one statement that can write, or one lookup before it; the    *)
(* lookups that follow an UPDATE only shape the response and are one step. *)

Slots == 1..MaxRequests

\* a free slot, with the status and the place of the last response in it
Idle(from, status) == [pc |-> "idle", from |-> from, status |-> status]

\* ids not yet given out: crypto.randomUUID() returns none twice
UsedIds ==
    { p.id : p \in db_players } \cup { o.id : o \in db_outings }
        \cup { reqs[r].id : r \in { q \in Slots : reqs[q].pc \in {"addPlayer.insert"} } }

FreshIds == (1..MaxIds) \ UsedIds

NewId == CHOOSE id \in FreshIds : \A other \in FreshIds : id <= other

-----------------------------------------------------------------------------
(* The players table and its endpoints.                                    *)

NoError == ""

SkillCheckFailed == "CHECK constraint failed: skill >= 1 AND skill <= 10"

NameLowerUnique == "UNIQUE constraint failed: players.name_lower"

NameUnique == "UNIQUE constraint failed: players.name"

\* variant: the table without the unique index on name_lower
PlayersViolationNameOnly(new, others) ==
    IF LessThan(new.skill, MinSkill) \/ GreaterThan(new.skill, MaxSkill) THEN SkillCheckFailed
    ELSE IF \E o \in others : o.name = new.name THEN NameUnique
    ELSE NoError

\* the constraint SQLite reports when row new is written beside the rows
\* others: the CHECK first, then the unique indexes, the last declared first
PlayersViolation(new, others) ==
    IF LessThan(new.skill, MinSkill) \/ GreaterThan(new.skill, MaxSkill) THEN SkillCheckFailed
    ELSE IF \E o \in others : o.name_lower = new.name_lower THEN NameLowerUnique
    ELSE IF \E o \in others : o.name = new.name THEN NameUnique
    ELSE NoError

\* the catch blocks of the player endpoints: 409 for name_lower, else 500
PlayerErrorStatus(err) == IF err = NameLowerUnique THEN 409 ELSE 500

\* POST /api/players, up to the lookup of an existing player of that name
AddPlayerCheck(r, body) ==
    /\ reqs[r].pc = "idle"
    /\ IF Falsy(body.name) \/ body.name.type # "string" \/ trim(body.name.chars) = <<>>
       THEN reqs' = [reqs EXCEPT ![r] = Idle("addPlayer.name", 400)]
       ELSE IF \/ body.skill.type # "number"
               \/ LessThan(body.skill, MinSkill)
               \/ GreaterThan(body.skill, MaxSkill)
       THEN reqs' = [reqs EXCEPT ![r] = Idle("addPlayer.skill", 400)]
       ELSE IF \E p \in db_players : p.name_lower = toLowerCase(body.name.chars)
       THEN reqs' = [reqs EXCEPT ![r] = Idle("addPlayer.check", 409)]
       ELSE /\ FreshIds # {}
            /\ reqs' = [reqs EXCEPT ![r] =
                   [pc |-> "addPlayer.insert", id |-> NewId, name |-> body.name.chars,
                    name_lower |-> toLowerCase(body.name.chars), skill |-> body.skill]]
    /\ UNCHANGED <<dbVars, handlerVars>>

\* POST /api/players: the INSERT and the response
AddPlayerInsert(r) ==
    /\ reqs[r].pc = "addPlayer.insert"
    /\ LET new == [id |-> reqs[r].id, name |-> reqs[r].name,
                   name_lower |-> reqs[r].name_lower, skill |-> reqs[r].skill]
           err == PlayersViolation(new, db_players)
       IN  IF err = NoError
           THEN /\ db_players' = db_players \cup {new}
                /\ reqs' = [reqs EXCEPT ![r] = Idle("addPlayer.insert", 201)]
           ELSE /\ db_players' = db_players
                /\ reqs' = [reqs EXCEPT ![r] = Idle("addPlayer.insert", PlayerErrorStatus(err))]
    /\ UNCHANGED <<db_outings, db_outing_players, handlerVars>>

\* PUT /api/players/:id, up to the UPDATE; changes is the number of rows it
\* matched; what follows reads name only when no row changed
UpdatePlayerRun(r, id, body) ==
    /\ reqs[r].pc = "idle"
    /\ IF Falsy(body.name) /\ body.skill = JUndefined
       THEN /\ reqs' = [reqs EXCEPT ![r] = Idle("updatePlayer.body", 400)]
            /\ db_players' = db_players
       ELSE IF /\ body.name # JUndefined
               /\ (body.name.type # "string" \/ trim(body.name.chars) = <<>>)
       THEN /\ reqs' = [reqs EXCEPT ![r] = Idle("updatePlayer.name", 400)]
            /\ db_players' = db_players
       ELSE IF /\ body.skill # JUndefined
               /\ \/ body.skill.type # "number"
                  \/ LessThan(body.skill, MinSkill)
                  \/ GreaterThan(body.skill, MaxSkill)
       THEN /\ reqs' = [reqs EXCEPT ![r] = Idle("updatePlayer.skill", 400)]
            /\ db_players' = db_players
       ELSE IF ~(\E p \in db_players : p.id = id)
       THEN /\ reqs' = [reqs EXCEPT ![r] =
                   [pc |-> "updatePlayer.reply", id |-> id, name |-> body.name, changes |-> 0]]
            /\ db_players' = db_players
       ELSE LET old == CHOOSE p \in db_players : p.id = id
                named == IF body.name # JUndefined
                         THEN [old EXCEPT !.name = body.name.chars,
                                          !.name_lower = toLowerCase(body.name.chars)]
                         ELSE old
                new == IF body.skill # JUndefined
                       THEN [named EXCEPT !.skill = body.skill]
                       ELSE named
                err == PlayersViolation(new, db_players \ {old})
            IN  IF err = NoError
                THEN /\ db_players' = (db_players \ {old}) \cup {new}
                     /\ reqs' = [reqs EXCEPT ![r] =
                            [pc |-> "updatePlayer.reply", id |-> id, changes |-> 1]]
                ELSE /\ db_players' = db_players
                     /\ reqs' = [reqs EXCEPT ![r] =
                            Idle("updatePlayer.update", PlayerErrorStatus(err))]
    /\ UNCHANGED <<db_outings, db_outing_players, handlerVars>>

\* PUT /api/players/:id after the UPDATE: the lookups made when no row
\* changed, and the SELECT of the row that is returned
UpdatePlayerReply(r) ==
    /\ reqs[r].pc = "updatePlayer.reply"
    /\ IF reqs[r].changes = 0 /\ ~(\E p \in db_players : p.id = reqs[r].id)
       THEN reqs' = [reqs EXCEPT ![r] = Idle("updatePlayer.exists", 404)]
       ELSE IF /\ reqs[r].changes = 0
               /\ ~Falsy(reqs[r].name)
               /\ \E p \in db_players :
                      /\ p.name_lower = toLowerCase(reqs[r].name.chars)
                      /\ p.id # reqs[r].id
       THEN reqs' = [reqs EXCEPT ![r] = Idle("updatePlayer.other", 409)]
       ELSE reqs' = [reqs EXCEPT ![r] = Idle("updatePlayer.reply", 200)]
    /\ UNCHANGED <<dbVars, handlerVars>>

\* the stores are empty, no request is in flight, the group handler is not running
InitStore ==
    /\ db_players = {}
    /\ db_outings = {}
    /\ db_outing_players = {}
    /\ reqs = [r \in Slots |-> Idle("", 0)]
    /\ outingId = 1
    /\ query = NoParam
    /\ shuffle = ShuffleFlag(query)
    /\ HandlerInit

\* names in the bodies of the player requests: blank, "B", "b", "a"
NameInputs == {JString(<<32>>), JString(<<66>>), JString(<<98>>), JString(<<97>>)}

\* ids in the paths of the player requests: those of the stored players,
\* and one that no player has
PlayerIdInputs == { p.id : p \in db_players } \cup {0}

\* add-player requests with those names, update-player requests with the
\* name "B" or "a", with a skill, or with neither
NextPlayers ==
    \E r \in Slots :
        \/ \E name \in NameInputs :
               AddPlayerCheck(r, [name |-> name, skill |-> JNumber(5, 1)])
        \/ AddPlayerInsert(r)
        \/ \E id \in PlayerIdInputs, name \in {JUndefined, JString(<<66>>), JString(<<97>>)} :
               UpdatePlayerRun(r, id, [name |-> name, skill |-> JUndefined])
        \/ \E id \in PlayerIdInputs :
               UpdatePlayerRun(r, id, [name |-> JUndefined, skill |-> JNumber(5, 1)])
        \/ UpdatePlayerReply(r)

SpecPlayers == InitStore /\ [][NextPlayers]_vars

\* skills in the bodies of the player requests: absent, the string "5",
\* 0, 1/2, 1, 11/2, 10, 21/2, 11
SkillInputs ==
    {JUndefined, JString(<<53>>), JNumber(0, 1), JNumber(1, 2), JNumber(MinSkill, 1),
     JNumber(11, 2), JNumber(MaxSkill, 1), JNumber(21, 2), JNumber(11, 1)}

\* add-player and update-player requests, one after the other, with those skills
NextSkills ==
    \/ \E name \in {JString(<<97>>), JString(<<98>>)}, skill \in SkillInputs :
           AddPlayerCheck(1, [name |-> name, skill |-> skill])
    \/ AddPlayerInsert(1)
    \/ \E id \in PlayerIdInputs, skill \in SkillInputs :
           UpdatePlayerRun(1, id, [name |-> JUndefined, skill |-> skill])
    \/ UpdatePlayerReply(1)

SpecSkills == InitStore /\ [][NextSkills]_vars

-----------------------------------------------------------------------------
(* The outings table and its endpoints.                                    *)

\* numberOfGroups = 3; // Default value
DefaultGroups == 3

\* variant: the test of the group count without numberOfGroups < 1
InvalidGroupCountNoFloor(v) ==
    v # JUndefined /\ (v.type # "number" \/ ~IsInteger(v))

\* numberOfGroups !== undefined && (typeof numberOfGroups !== 'number'
\*   || !Number.isInteger(numberOfGroups) || numberOfGroups < 1)
InvalidGroupCount(v) ==
    v # JUndefined /\ (v.type # "number" \/ ~IsInteger(v) \/ LessThan(v, 1))

\* a request to POST /api/outings arrives
CreateOutingRequest(r, body) ==
    /\ reqs[r].pc = "idle"
    /\ reqs' = [reqs EXCEPT ![r] = [pc |-> "createOuting", body |-> body]]
    /\ UNCHANGED <<dbVars, handlerVars>>

\* POST /api/outings: validation, default, INSERT, response
CreateOuting(r) ==
    /\ reqs[r].pc = "createOuting"
    /\ LET name == reqs[r].body.name
           count == reqs[r].body.numberOfGroups
       IN  IF Falsy(name) \/ name.type # "string" \/ trim(name.chars) = <<>>
           THEN /\ reqs' = [reqs EXCEPT ![r] = Idle("createOuting.name", 400)]
                /\ db_outings' = db_outings
           ELSE IF InvalidGroupCount(count)
           THEN /\ reqs' = [reqs EXCEPT ![r] = Idle("createOuting.numberOfGroups", 400)]
                /\ db_outings' = db_outings
           ELSE /\ FreshIds # {}
                /\ db_outings' = db_outings \cup
                       { [id |-> NewId, name |-> name.chars,
                          number_of_groups |-> IF count = JUndefined
                                               THEN JNumber(DefaultGroups, 1)
                                               ELSE count] }
                /\ reqs' = [reqs EXCEPT ![r] = Idle("createOuting.insert", 201)]
    /\ UNCHANGED <<db_players, db_outing_players, handlerVars>>

\* a request to PUT /api/outings/:id arrives
UpdateOutingRequest(r, id, body) ==
    /\ reqs[r].pc = "idle"
    /\ reqs' = [reqs EXCEPT ![r] = [pc |-> "updateOuting", id |-> id, body |-> body]]
    /\ UNCHANGED <<dbVars, handlerVars>>

\* PUT /api/outings/:id, up to the UPDATE; changes is the number of rows it matched
UpdateOutingRun(r) ==
    /\ reqs[r].pc = "updateOuting"
    /\ LET id == reqs[r].id
           name == reqs[r].body.name
           count == reqs[r].body.numberOfGroups
       IN  IF name = JUndefined /\ count = JUndefined
           THEN /\ reqs' = [reqs EXCEPT ![r] = Idle("updateOuting.body", 400)]
                /\ db_outings' = db_outings
           ELSE IF name # JUndefined /\ (name.type # "string" \/ trim(name.chars) = <<>>)
           THEN /\ reqs' = [reqs EXCEPT ![r] = Idle("updateOuting.name", 400)]
                /\ db_outings' = db_outings
           ELSE IF InvalidGroupCount(count)
           THEN /\ reqs' = [reqs EXCEPT ![r] = Idle("updateOuting.numberOfGroups", 400)]
                /\ db_outings' = db_outings
           ELSE IF ~(\E o \in db_outings : o.id = id)
           THEN /\ reqs' = [reqs EXCEPT ![r] =
                       [pc |-> "updateOuting.reply", id |-> id, changes |-> 0]]
                /\ db_outings' = db_outings
           ELSE LET old == CHOOSE o \in db_outings : o.id = id
                    named == IF name # JUndefined
                             THEN [old EXCEPT !.name = name.chars]
                             ELSE old
                    new == IF count # JUndefined
                           THEN [named EXCEPT !.number_of_groups = count]
                           ELSE named
                IN  /\ db_outings' = (db_outings \ {old}) \cup {new}
                    /\ reqs' = [reqs EXCEPT ![r] =
                           [pc |-> "updateOuting.reply", id |-> id, changes |-> 1]]
    /\ UNCHANGED <<db_players, db_outing_players, handlerVars>>

\* PUT /api/outings/:id after the UPDATE: the lookup made when no row
\* changed, and the SELECT of the row that is returned
UpdateOutingReply(r) ==
    /\ reqs[r].pc = "updateOuting.reply"
    /\ IF reqs[r].changes = 0 /\ ~(\E o \in db_outings : o.id = reqs[r].id)
       THEN reqs' = [reqs EXCEPT ![r] = Idle("updateOuting.exists", 404)]
       ELSE reqs' = [reqs EXCEPT ![r] = Idle("updateOuting.reply", 200)]
    /\ UNCHANGED <<dbVars, handlerVars>>

\* group counts in the bodies of the outing requests: absent, the string
\* "3", 0, -1, 3/2, 1, 2
GroupCountInputs ==
    {JUndefined, JString(<<51>>), JNumber(0, 1), JNumber(-1, 1), JNumber(3, 2),
     JNumber(1, 1), JNumber(2, 1)}

\* create-outing and update-outing requests, one after the other
NextOutings ==
    \/ \E name \in {JUndefined, JString(<<97>>)}, count \in GroupCountInputs :
           CreateOutingRequest(1, [name |-> name, numberOfGroups |-> count])
    \/ CreateOuting(1)
    \/ \E id \in 1..MaxIds, name \in {JUndefined, JString(<<97>>)}, count \in GroupCountInputs :
           UpdateOutingRequest(1, id, [name |-> name, numberOfGroups |-> count])
    \/ UpdateOutingRun(1)
    \/ UpdateOutingReply(1)

SpecOutings == InitStore /\ [][NextOutings]_vars

-----------------------------------------------------------------------------
(* The outing_players table, its endpoints, and the deletes that cascade.  *)

PairUnique == "UNIQUE constraint failed: outing_players.outing_id, outing_players.player_id"

ForeignKeyFailed == "FOREIGN KEY constraint failed"

\* variant: the table without its primary key
MembersViolationNoKey(new) ==
    IF \/ ~(\E o \in db_outings : o.id = new.outing_id)
       \/ ~(\E p \in db_players : p.id = new.player_id)
    THEN ForeignKeyFailed
    ELSE NoError

\* the constraint the database reports when row new is inserted: the
\* primary key, then the foreign keys (D1 enforces foreign keys)
MembersViolation(new) ==
    IF \E m \in db_outing_players :
           m.outing_id = new.outing_id /\ m.player_id = new.player_id
    THEN PairUnique
    ELSE IF \/ ~(\E o \in db_outings : o.id = new.outing_id)
            \/ ~(\E p \in db_players : p.id = new.player_id)
    THEN ForeignKeyFailed
    ELSE NoError

\* the rowid of a new row: one that no row of the table has
NewRowId ==
    CHOOSE n \in 1..(Cardinality(db_outing_players) + 1) :
        /\ \A m \in db_outing_players : m.rowid # n
        /\ \A l \in 1..(n - 1) : \E m \in db_outing_players : m.rowid = l

\* variant: the foreign key without ON DELETE CASCADE, not enforced
CascadePlayerNone(rows, id) == rows

\* FOREIGN KEY (player_id) REFERENCES players(id) ON DELETE CASCADE
CascadePlayer(rows, id) == { m \in rows : m.player_id # id }

\* FOREIGN KEY (outing_id) REFERENCES outings(id) ON DELETE CASCADE
CascadeOuting(rows, id) == { m \in rows : m.outing_id # id }

\* POST /api/outings/:outingId/players, up to the lookup of the outing
AddMemberOuting(r, o, p) ==
    /\ reqs[r].pc = "idle"
    /\ IF ~(\E row \in db_outings : row.id = o)
       THEN reqs' = [reqs EXCEPT ![r] = Idle("addMember.outing", 404)]
       ELSE reqs' = [reqs EXCEPT ![r] =
                [pc |-> "addMember.player", outingId |-> o, playerId |-> p]]
    /\ UNCHANGED <<dbVars, handlerVars>>

\* POST /api/outings/:outingId/players: the lookup of the player
AddMemberPlayer(r) ==
    /\ reqs[r].pc = "addMember.player"
    /\ IF ~(\E row \in db_players : row.id = reqs[r].playerId)
       THEN reqs' = [reqs EXCEPT ![r] = Idle("addMember.player", 404)]
       ELSE reqs' = [reqs EXCEPT ![r].pc = "addMember.existing"]
    /\ UNCHANGED <<dbVars, handlerVars>>

\* POST /api/outings/:outingId/players: the lookup of the membership
AddMemberExisting(r) ==
    /\ reqs[r].pc = "addMember.existing"
    /\ IF \E m \in db_outing_players :
              m.outing_id = reqs[r].outingId /\ m.player_id = reqs[r].playerId
       THEN reqs' = [reqs EXCEPT ![r] = Idle("addMember.existing", 409)]
       ELSE reqs' = [reqs EXCEPT ![r].pc = "addMember.insert"]
    /\ UNCHANGED <<dbVars, handlerVars>>

\* POST /api/outings/:outingId/players: the INSERT, the response, the catch
AddMemberInsert(r) ==
    /\ reqs[r].pc = "addMember.insert"
    /\ LET new == MemberRow(reqs[r].outingId, reqs[r].playerId, NewRowId)
           err == MembersViolation(new)
       IN  IF err = NoError
           THEN /\ db_outing_players' = db_outing_players \cup {new}
                /\ reqs' = [reqs EXCEPT ![r] = Idle("addMember.insert", 201)]
           ELSE /\ db_outing_players' = db_outing_players
                /\ reqs' = [reqs EXCEPT ![r] =
                       Idle("addMember.insert",
                            IF err = ForeignKeyFailed THEN 404
                            ELSE IF err = PairUnique THEN 409
                            ELSE 500)]
    /\ UNCHANGED <<db_players, db_outings, handlerVars>>

\* DELETE /api/outings/:outingId/players/:playerId
RemoveMember(r, o, p) ==
    /\ reqs[r].pc = "idle"
    /\ LET gone == { m \in db_outing_players : m.outing_id = o /\ m.player_id = p }
       IN  /\ db_outing_players' = db_outing_players \ gone
           /\ reqs' = [reqs EXCEPT ![r] =
                  Idle("removeMember", IF gone = {} THEN 404 ELSE 200)]
    /\ UNCHANGED <<db_players, db_outings, handlerVars>>

\* DELETE /api/players/:id, up to the lookup of the player
DeletePlayerCheck(r, id) ==
    /\ reqs[r].pc = "idle"
    /\ IF ~(\E p \in db_players : p.id = id)
       THEN reqs' = [reqs EXCEPT ![r] = Idle("deletePlayer.check", 404)]
       ELSE reqs' = [reqs EXCEPT ![r] = [pc |-> "deletePlayer.members", id |-> id]]
    /\ UNCHANGED <<dbVars, handlerVars>>

\* DELETE /api/players/:id: DELETE FROM outing_players WHERE player_id = ?1
DeletePlayerMembers(r) ==
    /\ reqs[r].pc = "deletePlayer.members"
    /\ db_outing_players' = { m \in db_outing_players : m.player_id # reqs[r].id }
    /\ reqs' = [reqs EXCEPT ![r].pc = "deletePlayer.row"]
    /\ UNCHANGED <<db_players, db_outings, handlerVars>>

\* DELETE /api/players/:id: DELETE FROM players WHERE id = ?1, and the response
DeletePlayerRow(r) ==
    /\ reqs[r].pc = "deletePlayer.row"
    /\ db_players' = { p \in db_players : p.id # reqs[r].id }
    /\ db_outing_players' = CascadePlayer(db_outing_players, reqs[r].id)
    /\ reqs' = [reqs EXCEPT ![r] = Idle("deletePlayer.row", 200)]
    /\ UNCHANGED <<db_outings, handlerVars>>

\* DELETE /api/outings/:id, up to the lookup of the outing
DeleteOutingCheck(r, id) ==
    /\ reqs[r].pc = "idle"
    /\ IF ~(\E o \in db_outings : o.id = id)
       THEN reqs' = [reqs EXCEPT ![r] = Idle("deleteOuting.check", 404)]
       ELSE reqs' = [reqs EXCEPT ![r] = [pc |-> "deleteOuting.row", id |-> id]]
    /\ UNCHANGED <<dbVars, handlerVars>>

\* DELETE /api/outings/:id: DELETE FROM outings WHERE id = ?1, and the response
DeleteOutingRow(r) ==
    /\ reqs[r].pc = "deleteOuting.row"
    /\ db_outings' = { o \in db_outings : o.id # reqs[r].id }
    /\ db_outing_players' = CascadeOuting(db_outing_players, reqs[r].id)
    /\ reqs' = [reqs EXCEPT ![r] = Idle("deleteOuting.row", 200)]
    /\ UNCHANGED <<db_players, handlerVars>>

\* two players and one outing, no membership, no request in flight
InitMembers ==
    /\ db_players = { PlayerRow(id, JNumber(MinSkill, 1)) : id \in 1..2 }
    /\ db_outings = { [id |-> 1, name |-> <<97>>, number_of_groups |-> JNumber(DefaultGroups, 1)] }
    /\ db_outing_players = {}
    /\ reqs = [r \in Slots |-> Idle("", 0)]
    /\ outingId = 1
    /\ query = NoParam
    /\ shuffle = ShuffleFlag(query)
    /\ HandlerInit

\* membership requests and deletes of players and outings, interleaved
NextMembers ==
    \E r \in Slots :
        \/ \E p \in 1..2 : AddMemberOuting(r, 1, p)
        \/ AddMemberPlayer(r)
        \/ AddMemberExisting(r)
        \/ AddMemberInsert(r)
        \/ \E p \in 1..2 : RemoveMember(r, 1, p)
        \/ \E id \in 1..2 : DeletePlayerCheck(r, id)
        \/ DeletePlayerMembers(r)
        \/ DeletePlayerRow(r)
        \/ DeleteOutingCheck(r, 1)
        \/ DeleteOutingRow(r)

SpecMembers == InitMembers /\ [][NextMembers]_vars

-----------------------------------------------------------------------------
(* Properties.                                                             *)

\* the handler has returned the groups of a non-empty outing
Generated == pc = "done" /\ response.status = 200 /\ currentPlayers # 0

\* how often player row p occurs in the player lists of the groups gs
Occurrences(p, gs) ==
    Cardinality({ pos \in UNION { { <<g, n>> : n \in 1..Len(gs[g].players) } :
                                     g \in 1..Len(gs) } :
                    gs[pos[1]].players[pos[2]] = p })

\* C1 (partition): in a result, in either mode, every player the member
\* lookup returned is in the player list of exactly one group, exactly once,
\* and the groups hold no other player.
C1_Partition ==
    Generated =>
        LET input == heap[players]
            gs == response.groups
        IN  /\ \A n \in 1..Len(input) : Occurrences(input[n], gs) = 1
            /\ \A g \in 1..Len(gs) : \A n \in 1..Len(gs[g].players) :
                   \E m \in 1..Len(input) : gs[g].players[n] = input[m]

C1_Witness ==
    /\ Generated
    /\ shuffle
    /\ Len(heap[players]) = 3
    /\ numberOfGroups = 2
    /\ heap[currentPlayers] # heap[players]

\* the group (0-based) the snake draft gives the n-th player (0-based) of
\* count groups
SnakeIndex(n, count) ==
    LET r == n % (2 * count) IN IF r < count THEN r ELSE 2 * count - 1 - r

\* C3 (turn rule): during and after the distribution the next player goes
\* to group SnakeIndex(k), and the n-th player of the ordered sequence is in
\* the player list of group SnakeIndex(n), for every n already distributed.
C3_TurnRule ==
    (pc \in {"distribute", "done"} /\ currentPlayers # 0) =>
        /\ groupIndex = SnakeIndex(k, numberOfGroups)
        /\ \A n \in 0..(k - 1) :
               \E m \in 1..Len(groups[SnakeIndex(n, numberOfGroups) + 1].players) :
                   groups[SnakeIndex(n, numberOfGroups) + 1].players[m]
                       = heap[currentPlayers][n + 1]

C3_Witness ==
    /\ Generated
    /\ numberOfGroups = 2
    /\ k = 3
    /\ Len(groups[2].players) = 2
    /\ direction = -1

SkillsOf(ps) == [n \in 1..Len(ps) |-> ps[n].skill]

ExamplePath == <<0, 1, 2, 2, 1, 0, 0, 1, 2, 2>>

\* C4 (worked example): ten players of skills 10..1 and three groups, in
\* balanced mode, whatever order the lookup returned them in: the players
\* are assigned along the path 0,1,2,2,1,0,0,1,2,2, the groups hold the
\* skills (10,5,4), (9,6,3), (8,7,2,1) and total 19, 18, 18.
C4_WorkedExample ==
    /\ (pc = "distribute" /\ k < Len(ExamplePath)) => groupIndex = ExamplePath[k + 1]
    /\ pc = "done" =>
        /\ response.status = 200
        /\ Len(response.groups) = 3
        /\ SkillsOf(response.groups[1].players) = <<10, 5, 4>>
        /\ SkillsOf(response.groups[2].players) = <<9, 6, 3>>
        /\ SkillsOf(response.groups[3].players) = <<8, 7, 2, 1>>
        /\ response.groups[1].totalSkill = 19
        /\ response.groups[2].totalSkill = 18
        /\ response.groups[3].totalSkill = 18

C4_Witness ==
    /\ pc = "done"
    /\ Len(heap[players]) = 10
    /\ heap[players][1].skill = 1
    /\ heap[players][10].skill = 4

\* C2 (determinism): in balanced mode the same request against the same
\* database yields the same response as the invocation before it, whatever
\* order the member lookup returned the players in.
C2_Determinism ==
    (pc = "done" /\ lastResponse # NoResponse) => response = lastResponse

\* the configured group count of the requested outing
ConfiguredGroups == (CHOOSE o \in db_outings : o.id = outingId).number_of_groups

\* C5 (name uniqueness): the names of the generated groups are pairwise
\* distinct, for every group count (here up to MaxNameGroups, beyond two
\* cycles of the catalog).
C5_NameUniqueness ==
    pc \in {"distribute", "done"} =>
        \A a, b \in 1..Len(groups) : a # b => groups[a].name # groups[b].name

C5_Witness ==
    /\ Generated
    /\ Len(response.groups) = 2 * Len(GOLF_GROUP_NAMES) + 1
    /\ response.groups[1].name = "The Fairway Fanatics"
    /\ response.groups[27].name = "The Fairway Fanatics (2)"
    /\ response.groups[53].name = "The Fairway Fanatics (3)"

\* C6 (no group omitted): for an outing with at least one member the result
\* holds exactly as many groups as the outing configures, reports that
\* count as numberOfGroups, and the groups beyond the number of players are
\* there with no players and totalSkill 0.
C6_NoGroupOmitted ==
    (pc = "done" /\ outing.id # 0 /\ MemberRows(outingId) # {}) =>
        /\ response.status = 200
        /\ "numberOfGroups" \in DOMAIN response
        /\ response.numberOfGroups = ConfiguredGroups
        /\ Len(response.groups) = ConfiguredGroups
        /\ \A n \in 1..Len(response.groups) :
               n > Cardinality(MemberRows(outingId)) =>
                   /\ response.groups[n].players = <<>>
                   /\ response.groups[n].totalSkill = 0

C6_Witness ==
    /\ Generated
    /\ Cardinality(MemberRows(outingId)) = 1
    /\ Len(response.groups) = 3
    /\ response.groups[3].players = <<>>

\* the sum of the skills of the players ps
RECURSIVE SkillTotal(_)
SkillTotal(ps) == IF ps = <<>> THEN 0 ELSE SkillTotal(Tail(ps)) + Head(ps).skill

\* C7 (totals): in every result each group's totalSkill is the sum of the
\* skills of the players in its final player list (0 for an empty group).
C7_TotalSkill ==
    (pc = "done" /\ response.status = 200) =>
        \A n \in 1..Len(response.groups) :
            response.groups[n].totalSkill = SkillTotal(response.groups[n].players)

C7_Witness ==
    /\ Generated
    /\ shuffle
    /\ \E n \in 1..Len(response.groups) :
           /\ SkillsOf(response.groups[n].players) = <<MinSkill, MaxSkill>>
           /\ response.groups[n].totalSkill = MaxSkill + MinSkill

\* C8 (empty outing): for an existing outing without members the handler
\* answers 200 with the outing's name, no groups and a message, in either
\* mode and for every configured group count.
C8_EmptyOuting ==
    (pc = "done" /\ outing.id # 0 /\ MemberRows(outingId) = {}) =>
        /\ response.status = 200
        /\ DOMAIN response = {"status", "outingName", "groups", "message"}
        /\ response.outingName = outing.name
        /\ response.groups = <<>>
        /\ response.message # ""

C8_Witness ==
    /\ pc = "done"
    /\ shuffle
    /\ outing.id = 1
    /\ outing.number_of_groups = 3
    /\ MemberRows(outingId) = {}
    /\ response.status = 200
    /\ response.groups = <<>>

\* C9 (no input mutation): once the member lookup has returned, no step of
\* the handler changes the array it returned.
C9_NoInputMutation ==
    [][(players # 0 /\ players' # 0) => heap'[players'] = heap[players]]_vars

C9_Witness ==
    /\ Generated
    /\ ~shuffle
    /\ Len(heap[players]) = 3
    /\ heap[currentPlayers] # heap[players]

\* the sequences of draws the loop can make for an array of n elements
DrawSequences(n) ==
    { c \in [1..(n - 1) -> 0..(n - 1)] : \A m \in 1..(n - 1) : c[m] \in RandomIndex(n - m) }

\* the array a after the shuffle loop has made the draws c
RECURSIVE ShuffleWith(_, _, _)
ShuffleWith(a, c, m) ==
    IF m > Len(c) THEN a ELSE ShuffleWith(Swap(a, Len(a) - m, c[m]), c, m + 1)

\* a holds the elements of b, each as often (the elements of b are distinct)
IsOrderingOf(a, b) ==
    /\ Len(a) = Len(b)
    /\ { a[n] : n \in 1..Len(a) } = { b[n] : n \in 1..Len(b) }
    /\ \A m, n \in 1..Len(b) : m # n => b[m] # b[n]

\* C10 (shuffle): the loop visits i = n-1 down to 1 and draws j in [0, i];
\* the working copy is always an ordering of the input; and when the loop
\* has ended, the outcomes of the sequences of draws are exactly the
\* orderings of the input, no two sequences giving the same outcome, and
\* the draws made are the sequence that gives the working copy.
C10_Shuffle ==
    pc = "shuffle" =>
        LET input == heap[players]
            n == Len(input)
            outcomes == { ShuffleWith(input, c, 1) : c \in DrawSequences(n) }
        IN  /\ i = n - 1 - Len(draws)
            /\ \A m \in 1..Len(draws) : draws[m] >= 0 /\ draws[m] <= n - m
            /\ IsOrderingOf(heap[currentPlayers], input)
            /\ i <= 0 =>
                /\ outcomes = Orderings({ input[m] : m \in 1..n })
                /\ Cardinality(outcomes) = Cardinality(DrawSequences(n))
                /\ draws \in DrawSequences(n)
                /\ ShuffleWith(input, draws, 1) = heap[currentPlayers]

C10_Witness ==
    /\ pc = "shuffle"
    /\ i = 0
    /\ Len(heap[players]) = 3
    /\ draws = <<0, 0>>
    /\ heap[currentPlayers] = <<heap[players][2], heap[players][3], heap[players][1]>>


\* C11: no step of a generation request, whatever its outcome (groups, empty
\* outing, outing not found) and whatever its mode, changes the players, the
\* outings or the memberships; as every step of every request leaves them as
\* they were, so does any interleaving of the steps of several requests.
C11_StoresUnchanged == [][dbVars' = dbVars]_vars

C11_Witness ==
    /\ Generated
    /\ query = "true"
    /\ Cardinality(db_outing_players) = 2
    /\ Len(response.groups) = 3
    /\ response.groups[3].players = <<>>

\* C17 (balanced ordering): unless the shuffle parameter is exactly 'true'
\* (absent or anything else: balanced mode), the sequence handed to the
\* distribution is an ordering of the players the lookup returned, made
\* without a random draw, in which every player p directly before a player q
\* has the higher skill, or the same skill and a name that does not compare
\* after q's.
C17_BalancedOrder ==
    (query # "true" /\ pc \in {"makeGroups", "distribute", "done"} /\ currentPlayers # 0) =>
        LET s == heap[currentPlayers] IN
            /\ draws = <<>>
            /\ IsOrderingOf(s, heap[players])
            /\ \A n \in 1..(Len(s) - 1) :
                   \/ s[n].skill > s[n + 1].skill
                   \/ /\ s[n].skill = s[n + 1].skill
                      /\ localeCompare(s[n].name, s[n + 1].name) <= 0

C17_Witness ==
    /\ pc = "distribute"
    /\ query = NoParam
    /\ Len(heap[currentPlayers]) = 3
    /\ heap[currentPlayers][1].skill > heap[currentPlayers][2].skill
    /\ heap[currentPlayers][2].skill = heap[currentPlayers][3].skill
    /\ localeCompare(heap[currentPlayers][2].name, heap[currentPlayers][3].name) < 0
    /\ heap[currentPlayers] # heap[players]

\* the number of names in the catalog
CatalogLength == 26

\* C18 (naming rule): the catalog has CatalogLength = 26 names; group i
\* (0-based) of the generated groups is named catalog entry i mod 26, as it
\* stands when i < 26, and followed by " (c)" with c = (i div 26) + 1 when
\* i >= 26; group 26 is "The Fairway Fanatics (2)".  The names in the
\* response are the names the groups were built with.
C18_NamingRule ==
    /\ Len(GOLF_GROUP_NAMES) = CatalogLength
    /\ pc \in {"distribute", "done"} =>
           /\ \A n \in 1..Len(groups) :
                  groups[n].name =
                      IF n - 1 < CatalogLength
                      THEN GOLF_GROUP_NAMES[((n - 1) % CatalogLength) + 1]
                      ELSE GOLF_GROUP_NAMES[((n - 1) % CatalogLength) + 1] \o " ("
                               \o ToString(((n - 1) \div CatalogLength) + 1) \o ")"
           /\ Len(groups) > CatalogLength =>
                  groups[CatalogLength + 1].name = "The Fairway Fanatics (2)"
    /\ Generated =>
           /\ Len(response.groups) = ConfiguredGroups
           /\ \A n \in 1..Len(response.groups) : response.groups[n].name = groups[n].name

C18_Witness ==
    /\ Generated
    /\ Len(response.groups) = 2 * CatalogLength + 1
    /\ response.groups[CatalogLength].name = "The Zany Zephyrs"
    /\ response.groups[CatalogLength + 2].name = "The Driving Divas/Dudes (2)"
    /\ response.groups[2 * CatalogLength + 1].name = "The Fairway Fanatics (3)"

C20_BalancedSizes ==
    /\ (pc \in {"distribute", "done"} /\ currentPlayers # 0) =>
           \A a, b \in 1..Len(groups) :
               Len(groups[a].players) - Len(groups[b].players) \in {-1, 0, 1}
    /\ Generated =>
           \A a, b \in 1..Len(response.groups) :
               Len(response.groups[a].players) - Len(response.groups[b].players) \in {-1, 0, 1}

C20_Witness ==
    /\ Generated
    /\ shuffle
    /\ Len(heap[currentPlayers]) = 5
    /\ Len(response.groups) = 2
    /\ Len(response.groups[1].players) = 3
    /\ Len(response.groups[2].players) = 2

\* no two stored players have names that are equal when case is ignored
UniqueNames ==
    \A p, q \in db_players :
        p # q => p.id # q.id /\ toLowerCase(p.name) # toLowerCase(q.name)

\* the INSERT of an add-player request whose name a stored player already
\* has, case ignored, is answered 409 and writes nothing; and whichever
\* step of a request ends in an error response leaves the stores as they were
LoserRejected ==
    \A r \in Slots :
        /\ ( /\ reqs[r].pc = "addPlayer.insert"
             /\ reqs'[r] # reqs[r]
             /\ \E p \in db_players : toLowerCase(p.name) = toLowerCase(reqs[r].name) )
               => reqs'[r] = Idle("addPlayer.insert", 409) /\ dbVars' = dbVars
        /\ (reqs'[r] # reqs[r] /\ reqs'[r].pc = "idle" /\ reqs'[r].status >= 400)
               => dbVars' = dbVars

\* C12 (player name uniqueness): in every state reached by interleaved
\* add-player and update-player requests, two of which may both have passed
\* the existence check before either inserts, no two stored players have
\* case-insensitively equal names; the request that loses is rejected and
\* the store stays as it was.
C12_NameUniqueness == []UniqueNames /\ [][LoserRejected]_vars

C12_Witness ==
    /\ \E p \in db_players : p.name = <<66>>
    /\ ~(\E p \in db_players : p.name = <<98>>)
    /\ reqs[1] = Idle("addPlayer.insert", 409)
    /\ reqs[2] = Idle("addPlayer.insert", 201)

\* C16 (valid skill): every stored player's skill is an integer between 1
\* and 10; a request with any other skill is rejected and writes nothing.
C16_ValidSkill ==
    \A p \in db_players :
        /\ IsInteger(p.skill)
        /\ ~LessThan(p.skill, MinSkill)
        /\ ~GreaterThan(p.skill, MaxSkill)

\* every stored outing has a group count that is an integer >= 1
ValidGroupCounts ==
    \A o \in db_outings :
        IsInteger(o.number_of_groups) /\ ~LessThan(o.number_of_groups, 1)

\* what a create or update request with body b leaves behind: a group count
\* that is no number, no integer or below 1 gets 400 and no write; a create
\* without a group count stores an outing of 3 groups, one with a count
\* stores that count
OutingRequestServed ==
    /\ (reqs[1].pc \in {"createOuting", "updateOuting"} /\ reqs'[1] # reqs[1]) =>
           LET count == reqs[1].body.numberOfGroups IN
               /\ ( /\ count # JUndefined
                    /\ (count.type # "number" \/ count.num % count.den # 0
                            \/ count.num < count.den) )
                      => reqs'[1].status = 400 /\ dbVars' = dbVars
               /\ reqs'[1].pc = "idle" /\ reqs'[1].status = 400 => dbVars' = dbVars
    /\ (reqs[1].pc = "createOuting" /\ reqs'[1] = Idle("createOuting.insert", 201)) =>
           \E o \in db_outings' \ db_outings :
               /\ db_outings' = db_outings \cup {o}
               /\ o.number_of_groups =
                      IF reqs[1].body.numberOfGroups = JUndefined
                      THEN JNumber(3, 1)
                      ELSE reqs[1].body.numberOfGroups

\* C15 (valid group count): after any sequence of create-outing and
\* update-outing requests every stored outing has an integer group count
\* >= 1, which is 3 when the create request gave none; a request with a
\* count below 1 or a non-integer is answered 400 and writes nothing.
C15_ValidGroupCount == []ValidGroupCounts /\ [][OutingRequestServed]_vars

C15_Witness ==
    /\ \E o \in db_outings : o.number_of_groups = JNumber(3, 1)
    /\ \E o \in db_outings : o.number_of_groups = JNumber(1, 1)
    /\ reqs[1] = Idle("updateOuting.numberOfGroups", 400)

\* a pair of an outing and a player is in at most one row of outing_players
UniquePairs ==
    \A m, n \in db_outing_players :
        (m.outing_id = n.outing_id /\ m.player_id = n.player_id) => m = n

\* the step of an add-player-to-outing request that looks the pair up, or
\* inserts it, while the pair is stored, is answered 409 and writes nothing
DuplicateRejected ==
    \A r \in Slots :
        ( /\ reqs[r].pc \in {"addMember.existing", "addMember.insert"}
          /\ reqs'[r] # reqs[r]
          /\ \E m \in db_outing_players :
                 m.outing_id = reqs[r].outingId /\ m.player_id = reqs[r].playerId )
            => /\ reqs'[r].pc = "idle"
               /\ reqs'[r].status = 409
               /\ dbVars' = dbVars

\* C13 (membership uniqueness): in every state reached by interleaved
\* add-player-to-outing requests (with removals and deletes), two of which
\* may both have passed the already-member check for the same pair, a pair
\* of outing and player is stored at most once; the duplicate add is
\* answered 409 and the table stays as it was.
C13_MembershipUniqueness == []UniquePairs /\ [][DuplicateRejected]_vars

C13_Witness ==
    /\ reqs[1] = Idle("addMember.insert", 409)
    /\ reqs[2] = Idle("addMember.insert", 201)
    /\ Cardinality(db_outing_players) = 1

\* every membership row names a stored outing and a stored player
ReferencesExist ==
    \A m \in db_outing_players :
        /\ \E o \in db_outings : o.id = m.outing_id
        /\ \E p \in db_players : p.id = m.player_id

\* when the last statement of a delete-player or delete-outing request has
\* run, the record is gone and no membership row names it
DeletedUnreferenced ==
    \A r \in Slots :
        /\ (reqs[r].pc = "deletePlayer.row" /\ reqs'[r] # reqs[r]) =>
               /\ reqs'[r] = Idle("deletePlayer.row", 200)
               /\ \A p \in db_players' : p.id # reqs[r].id
               /\ \A m \in db_outing_players' : m.player_id # reqs[r].id
        /\ (reqs[r].pc = "deleteOuting.row" /\ reqs'[r] # reqs[r]) =>
               /\ reqs'[r] = Idle("deleteOuting.row", 200)
               /\ \A o \in db_outings' : o.id # reqs[r].id
               /\ \A m \in db_outing_players' : m.outing_id # reqs[r].id

\* C14 (referential integrity): in every reachable state every membership
\* references a player and an outing that exist; when a delete-player or
\* delete-outing request has completed no membership references the deleted
\* record, also when an add-player-to-outing request runs between the steps
\* of the delete, or the delete between the checks and the insert of the add.
C14_ReferentialIntegrity == []ReferencesExist /\ [][DeletedUnreferenced]_vars

C14_Witness ==
    /\ reqs[1] = Idle("deletePlayer.row", 200)
    /\ reqs[2] = Idle("addMember.insert", 404)
    /\ Cardinality(db_players) = 1
    /\ db_outing_players = {}

\* the highest skill among the players the lookup returned
HighestSkill ==
    CHOOSE s \in { heap[players][n].skill : n \in 1..Len(heap[players]) } :
        \A n \in 1..Len(heap[players]) : heap[players][n].skill <= s

\* C21 (skill balance bound): in balanced mode, for every group count and
\* every non-empty list of players of skills 1..10, the totalSkill of any
\* two groups of the result differ by at most the highest skill among the
\* players, hence by at most 10.
C21_SkillBalance ==
    (Generated /\ query # "true") =>
        \A a, b \in 1..Len(response.groups) :
            /\ response.groups[a].totalSkill - response.groups[b].totalSkill <= HighestSkill
            /\ response.groups[a].totalSkill - response.groups[b].totalSkill <= 10

C21_Witness ==
    /\ Generated
    /\ query = NoParam
    /\ Len(heap[players]) = 4
    /\ Len(response.groups) = 3
    /\ HighestSkill = 6
    /\ response.groups[3].totalSkill - response.groups[1].totalSkill = 6
====
